---------------------------- MODULE Spec2Model ----------------------------
(***************************************************************************)
(* Model of tasktrackerwebui/webui.py: the create_task route and           *)
(* TaskTrackerWebUI.post_add_task, which validates the four form fields,   *)
(* composes the start instant, resolves the repeat keyword and posts the   *)
(* payload to the task-tracking API.                                       *)
(*                                                                         *)
(* Text that the code parses (task_start, task_time) is a sequence of      *)
(* one-character strings; text that the code only tests and copies         *)
(* (task_name, repeat_info) is a TLA+ string.  A value that may be None    *)
(* is a sequence of length 0 (None) or 1 (the value).                      *)
(***************************************************************************)
EXTENDS Integers, Sequences, FiniteSets, TLC

VARIABLES pc, method, data, start_date, start_time, time_t, repeat,
          jsondata, url, sent, exc, response, zone, config

vars == <<pc, method, data, start_date, start_time, time_t, repeat,
          jsondata, url, sent, exc, response, zone, config>>

None == <<>>

Some(v) == <<v>>

-----------------------------------------------------------------------------
(* Python built-ins the handler calls: str.split and int().  A character   *)
(* outside ASCII is written by its code point, "U+0663".                   *)

(* sys.get_int_max_str_digits(): the longest literal, in digits, that      *)
(* int() converts.                                                         *)
MaxStrDigits == 4300

Digits == <<"0", "1", "2", "3", "4", "5", "6", "7", "8", "9">>

(* The decimal digits int() accepts, those of Unicode category Nd: 66 rows *)
(* of ten, each in the order of its values 0 to 9.                         *)
DigitRows ==
    <<Digits,
      <<"U+0660", "U+0661", "U+0662", "U+0663", "U+0664",
        "U+0665", "U+0666", "U+0667", "U+0668", "U+0669">>,
      <<"U+06F0", "U+06F1", "U+06F2", "U+06F3", "U+06F4",
        "U+06F5", "U+06F6", "U+06F7", "U+06F8", "U+06F9">>,
      <<"U+07C0", "U+07C1", "U+07C2", "U+07C3", "U+07C4",
        "U+07C5", "U+07C6", "U+07C7", "U+07C8", "U+07C9">>,
      <<"U+0966", "U+0967", "U+0968", "U+0969", "U+096A",
        "U+096B", "U+096C", "U+096D", "U+096E", "U+096F">>,
      <<"U+09E6", "U+09E7", "U+09E8", "U+09E9", "U+09EA",
        "U+09EB", "U+09EC", "U+09ED", "U+09EE", "U+09EF">>,
      <<"U+0A66", "U+0A67", "U+0A68", "U+0A69", "U+0A6A",
        "U+0A6B", "U+0A6C", "U+0A6D", "U+0A6E", "U+0A6F">>,
      <<"U+0AE6", "U+0AE7", "U+0AE8", "U+0AE9", "U+0AEA",
        "U+0AEB", "U+0AEC", "U+0AED", "U+0AEE", "U+0AEF">>,
      <<"U+0B66", "U+0B67", "U+0B68", "U+0B69", "U+0B6A",
        "U+0B6B", "U+0B6C", "U+0B6D", "U+0B6E", "U+0B6F">>,
      <<"U+0BE6", "U+0BE7", "U+0BE8", "U+0BE9", "U+0BEA",
        "U+0BEB", "U+0BEC", "U+0BED", "U+0BEE", "U+0BEF">>,
      <<"U+0C66", "U+0C67", "U+0C68", "U+0C69", "U+0C6A",
        "U+0C6B", "U+0C6C", "U+0C6D", "U+0C6E", "U+0C6F">>,
      <<"U+0CE6", "U+0CE7", "U+0CE8", "U+0CE9", "U+0CEA",
        "U+0CEB", "U+0CEC", "U+0CED", "U+0CEE", "U+0CEF">>,
      <<"U+0D66", "U+0D67", "U+0D68", "U+0D69", "U+0D6A",
        "U+0D6B", "U+0D6C", "U+0D6D", "U+0D6E", "U+0D6F">>,
      <<"U+0DE6", "U+0DE7", "U+0DE8", "U+0DE9", "U+0DEA",
        "U+0DEB", "U+0DEC", "U+0DED", "U+0DEE", "U+0DEF">>,
      <<"U+0E50", "U+0E51", "U+0E52", "U+0E53", "U+0E54",
        "U+0E55", "U+0E56", "U+0E57", "U+0E58", "U+0E59">>,
      <<"U+0ED0", "U+0ED1", "U+0ED2", "U+0ED3", "U+0ED4",
        "U+0ED5", "U+0ED6", "U+0ED7", "U+0ED8", "U+0ED9">>,
      <<"U+0F20", "U+0F21", "U+0F22", "U+0F23", "U+0F24",
        "U+0F25", "U+0F26", "U+0F27", "U+0F28", "U+0F29">>,
      <<"U+1040", "U+1041", "U+1042", "U+1043", "U+1044",
        "U+1045", "U+1046", "U+1047", "U+1048", "U+1049">>,
      <<"U+1090", "U+1091", "U+1092", "U+1093", "U+1094",
        "U+1095", "U+1096", "U+1097", "U+1098", "U+1099">>,
      <<"U+17E0", "U+17E1", "U+17E2", "U+17E3", "U+17E4",
        "U+17E5", "U+17E6", "U+17E7", "U+17E8", "U+17E9">>,
      <<"U+1810", "U+1811", "U+1812", "U+1813", "U+1814",
        "U+1815", "U+1816", "U+1817", "U+1818", "U+1819">>,
      <<"U+1946", "U+1947", "U+1948", "U+1949", "U+194A",
        "U+194B", "U+194C", "U+194D", "U+194E", "U+194F">>,
      <<"U+19D0", "U+19D1", "U+19D2", "U+19D3", "U+19D4",
        "U+19D5", "U+19D6", "U+19D7", "U+19D8", "U+19D9">>,
      <<"U+1A80", "U+1A81", "U+1A82", "U+1A83", "U+1A84",
        "U+1A85", "U+1A86", "U+1A87", "U+1A88", "U+1A89">>,
      <<"U+1A90", "U+1A91", "U+1A92", "U+1A93", "U+1A94",
        "U+1A95", "U+1A96", "U+1A97", "U+1A98", "U+1A99">>,
      <<"U+1B50", "U+1B51", "U+1B52", "U+1B53", "U+1B54",
        "U+1B55", "U+1B56", "U+1B57", "U+1B58", "U+1B59">>,
      <<"U+1BB0", "U+1BB1", "U+1BB2", "U+1BB3", "U+1BB4",
        "U+1BB5", "U+1BB6", "U+1BB7", "U+1BB8", "U+1BB9">>,
      <<"U+1C40", "U+1C41", "U+1C42", "U+1C43", "U+1C44",
        "U+1C45", "U+1C46", "U+1C47", "U+1C48", "U+1C49">>,
      <<"U+1C50", "U+1C51", "U+1C52", "U+1C53", "U+1C54",
        "U+1C55", "U+1C56", "U+1C57", "U+1C58", "U+1C59">>,
      <<"U+A620", "U+A621", "U+A622", "U+A623", "U+A624",
        "U+A625", "U+A626", "U+A627", "U+A628", "U+A629">>,
      <<"U+A8D0", "U+A8D1", "U+A8D2", "U+A8D3", "U+A8D4",
        "U+A8D5", "U+A8D6", "U+A8D7", "U+A8D8", "U+A8D9">>,
      <<"U+A900", "U+A901", "U+A902", "U+A903", "U+A904",
        "U+A905", "U+A906", "U+A907", "U+A908", "U+A909">>,
      <<"U+A9D0", "U+A9D1", "U+A9D2", "U+A9D3", "U+A9D4",
        "U+A9D5", "U+A9D6", "U+A9D7", "U+A9D8", "U+A9D9">>,
      <<"U+A9F0", "U+A9F1", "U+A9F2", "U+A9F3", "U+A9F4",
        "U+A9F5", "U+A9F6", "U+A9F7", "U+A9F8", "U+A9F9">>,
      <<"U+AA50", "U+AA51", "U+AA52", "U+AA53", "U+AA54",
        "U+AA55", "U+AA56", "U+AA57", "U+AA58", "U+AA59">>,
      <<"U+ABF0", "U+ABF1", "U+ABF2", "U+ABF3", "U+ABF4",
        "U+ABF5", "U+ABF6", "U+ABF7", "U+ABF8", "U+ABF9">>,
      <<"U+FF10", "U+FF11", "U+FF12", "U+FF13", "U+FF14",
        "U+FF15", "U+FF16", "U+FF17", "U+FF18", "U+FF19">>,
      <<"U+104A0", "U+104A1", "U+104A2", "U+104A3", "U+104A4",
        "U+104A5", "U+104A6", "U+104A7", "U+104A8", "U+104A9">>,
      <<"U+10D30", "U+10D31", "U+10D32", "U+10D33", "U+10D34",
        "U+10D35", "U+10D36", "U+10D37", "U+10D38", "U+10D39">>,
      <<"U+11066", "U+11067", "U+11068", "U+11069", "U+1106A",
        "U+1106B", "U+1106C", "U+1106D", "U+1106E", "U+1106F">>,
      <<"U+110F0", "U+110F1", "U+110F2", "U+110F3", "U+110F4",
        "U+110F5", "U+110F6", "U+110F7", "U+110F8", "U+110F9">>,
      <<"U+11136", "U+11137", "U+11138", "U+11139", "U+1113A",
        "U+1113B", "U+1113C", "U+1113D", "U+1113E", "U+1113F">>,
      <<"U+111D0", "U+111D1", "U+111D2", "U+111D3", "U+111D4",
        "U+111D5", "U+111D6", "U+111D7", "U+111D8", "U+111D9">>,
      <<"U+112F0", "U+112F1", "U+112F2", "U+112F3", "U+112F4",
        "U+112F5", "U+112F6", "U+112F7", "U+112F8", "U+112F9">>,
      <<"U+11450", "U+11451", "U+11452", "U+11453", "U+11454",
        "U+11455", "U+11456", "U+11457", "U+11458", "U+11459">>,
      <<"U+114D0", "U+114D1", "U+114D2", "U+114D3", "U+114D4",
        "U+114D5", "U+114D6", "U+114D7", "U+114D8", "U+114D9">>,
      <<"U+11650", "U+11651", "U+11652", "U+11653", "U+11654",
        "U+11655", "U+11656", "U+11657", "U+11658", "U+11659">>,
      <<"U+116C0", "U+116C1", "U+116C2", "U+116C3", "U+116C4",
        "U+116C5", "U+116C6", "U+116C7", "U+116C8", "U+116C9">>,
      <<"U+11730", "U+11731", "U+11732", "U+11733", "U+11734",
        "U+11735", "U+11736", "U+11737", "U+11738", "U+11739">>,
      <<"U+118E0", "U+118E1", "U+118E2", "U+118E3", "U+118E4",
        "U+118E5", "U+118E6", "U+118E7", "U+118E8", "U+118E9">>,
      <<"U+11950", "U+11951", "U+11952", "U+11953", "U+11954",
        "U+11955", "U+11956", "U+11957", "U+11958", "U+11959">>,
      <<"U+11C50", "U+11C51", "U+11C52", "U+11C53", "U+11C54",
        "U+11C55", "U+11C56", "U+11C57", "U+11C58", "U+11C59">>,
      <<"U+11D50", "U+11D51", "U+11D52", "U+11D53", "U+11D54",
        "U+11D55", "U+11D56", "U+11D57", "U+11D58", "U+11D59">>,
      <<"U+11DA0", "U+11DA1", "U+11DA2", "U+11DA3", "U+11DA4",
        "U+11DA5", "U+11DA6", "U+11DA7", "U+11DA8", "U+11DA9">>,
      <<"U+16A60", "U+16A61", "U+16A62", "U+16A63", "U+16A64",
        "U+16A65", "U+16A66", "U+16A67", "U+16A68", "U+16A69">>,
      <<"U+16AC0", "U+16AC1", "U+16AC2", "U+16AC3", "U+16AC4",
        "U+16AC5", "U+16AC6", "U+16AC7", "U+16AC8", "U+16AC9">>,
      <<"U+16B50", "U+16B51", "U+16B52", "U+16B53", "U+16B54",
        "U+16B55", "U+16B56", "U+16B57", "U+16B58", "U+16B59">>,
      <<"U+1D7CE", "U+1D7CF", "U+1D7D0", "U+1D7D1", "U+1D7D2",
        "U+1D7D3", "U+1D7D4", "U+1D7D5", "U+1D7D6", "U+1D7D7">>,
      <<"U+1D7D8", "U+1D7D9", "U+1D7DA", "U+1D7DB", "U+1D7DC",
        "U+1D7DD", "U+1D7DE", "U+1D7DF", "U+1D7E0", "U+1D7E1">>,
      <<"U+1D7E2", "U+1D7E3", "U+1D7E4", "U+1D7E5", "U+1D7E6",
        "U+1D7E7", "U+1D7E8", "U+1D7E9", "U+1D7EA", "U+1D7EB">>,
      <<"U+1D7EC", "U+1D7ED", "U+1D7EE", "U+1D7EF", "U+1D7F0",
        "U+1D7F1", "U+1D7F2", "U+1D7F3", "U+1D7F4", "U+1D7F5">>,
      <<"U+1D7F6", "U+1D7F7", "U+1D7F8", "U+1D7F9", "U+1D7FA",
        "U+1D7FB", "U+1D7FC", "U+1D7FD", "U+1D7FE", "U+1D7FF">>,
      <<"U+1E140", "U+1E141", "U+1E142", "U+1E143", "U+1E144",
        "U+1E145", "U+1E146", "U+1E147", "U+1E148", "U+1E149">>,
      <<"U+1E2F0", "U+1E2F1", "U+1E2F2", "U+1E2F3", "U+1E2F4",
        "U+1E2F5", "U+1E2F6", "U+1E2F7", "U+1E2F8", "U+1E2F9">>,
      <<"U+1E950", "U+1E951", "U+1E952", "U+1E953", "U+1E954",
        "U+1E955", "U+1E956", "U+1E957", "U+1E958", "U+1E959">>,
      <<"U+1FBF0", "U+1FBF1", "U+1FBF2", "U+1FBF3", "U+1FBF4",
        "U+1FBF5", "U+1FBF6", "U+1FBF7", "U+1FBF8", "U+1FBF9">> >>

DecimalDigits ==
    UNION {{DigitRows[r][i] : i \in 1..10} : r \in 1..Len(DigitRows)}

IsDigit(c) == c \in DecimalDigits

(* The value of each digit: its place in its row.                          *)
DigitValues ==
    [c \in DecimalDigits |->
        CHOOSE v \in 0..9 : \E r \in 1..Len(DigitRows) : DigitRows[r][v + 1] = c]

DigitVal(c) == DigitValues[c]

(* The white space int() ignores around the literal: 25 characters.        *)
WhiteSpace == {"\t", "\n", "\f", "\r", " ", "U+000B", "U+0085", "U+00A0",
               "U+1680", "U+2000", "U+2001", "U+2002", "U+2003", "U+2004",
               "U+2005", "U+2006", "U+2007", "U+2008", "U+2009", "U+200A",
               "U+2028", "U+2029", "U+202F", "U+205F", "U+3000"}

(* s.split(sep): the pieces between the occurrences of sep; never empty.   *)
split(s, sep) ==
    LET at     == {j \in 1..Len(s) : s[j] = sep}
        n      == Cardinality(at)
        cut(k) == IF k = 0 THEN 0
                  ELSE IF k > n THEN Len(s) + 1
                  ELSE CHOOSE j \in at : Cardinality({m \in at : m < j}) = k - 1
    IN  [k \in 1..(n + 1) |-> SubSeq(s, cut(k - 1) + 1, cut(k) - 1)]

(* int() ignores white space around the literal.                           *)
RECURSIVE strip(_)
strip(s) ==
    IF s = <<>> THEN s
    ELSE IF Head(s) \in WhiteSpace THEN strip(Tail(s))
    ELSE IF s[Len(s)] \in WhiteSpace THEN strip(SubSeq(s, 1, Len(s) - 1))
    ELSE s

(* The digits part of an int() literal: digits, with single underscores    *)
(* allowed between two digits.                                             *)
IsIntBody(t) ==
    /\ t # <<>>
    /\ IsDigit(t[1])
    /\ IsDigit(t[Len(t)])
    /\ \A i \in 1..Len(t) : IsDigit(t[i]) \/ t[i] = "_"
    /\ \A i \in 1..(Len(t) - 1) : ~(t[i] = "_" /\ t[i + 1] = "_")

(* The value of the digits, negated, as long as it is at least -2^31; 1    *)
(* for a larger magnitude.  A Python int has no width: only whether it     *)
(* fits a C int matters to the code that uses it.                          *)
RECURSIVE BodyValue(_, _)
BodyValue(t, acc) ==
    IF t = <<>> THEN acc
    ELSE IF Head(t) = "_" THEN BodyValue(Tail(t), acc)
    ELSE IF acc < -214748364 \/ (acc = -214748364 /\ DigitVal(Head(t)) > 8)
    THEN 1
    ELSE BodyValue(Tail(t), 10 * acc - DigitVal(Head(t)))

(* A Python int: its value when it fits a C int (over = 0); otherwise      *)
(* the side on which it does not (over = 1 above, -1 below), val unused.   *)
PyInt(v) == [val |-> v, over |-> 0]

(* int(x) for a str x: ok and the number, or ok = FALSE where Python       *)
(* raises ValueError: for a text that is no literal and for a literal of   *)
(* more than MaxStrDigits digits.                                          *)
int(x) ==
    LET t    == strip(x)
        sign == IF t # <<>> /\ t[1] \in {"+", "-"} THEN t[1] ELSE ""
        body == IF sign = "" THEN t ELSE Tail(t)
        neg  == BodyValue(body, 0)
    IN  IF /\ Len(body) > MaxStrDigits
           /\ Cardinality({i \in 1..Len(body) : IsDigit(body[i])})
                  > MaxStrDigits
        THEN [ok |-> FALSE, num |-> PyInt(0)]
        ELSE IF ~IsIntBody(body) THEN [ok |-> FALSE, num |-> PyInt(0)]
        ELSE IF sign = "-"
        THEN [ok |-> TRUE,
              num |-> IF neg = 1 THEN [val |-> 0, over |-> -1] ELSE PyInt(neg)]
        ELSE [ok |-> TRUE,
              num |-> IF neg = 1 \/ neg = -2147483647 - 1
                      THEN [val |-> 0, over |-> 1] ELSE PyInt(0 - neg)]

(* [int(x) for x in text.split(sep)]: the list, or ok = FALSE where some   *)
(* component makes int() raise ValueError.                                 *)
IntList(text, sep) ==
    LET parts == split(text, sep)
    IN  IF \A i \in 1..Len(parts) : int(parts[i]).ok
        THEN [ok |-> TRUE, val |-> [i \in 1..Len(parts) |-> int(parts[i]).num]]
        ELSE [ok |-> FALSE, val |-> <<>>]

-----------------------------------------------------------------------------
(* datetime.datetime(...) and time.mktime(...timetuple()).                 *)

is_leap(year) == year % 4 = 0 /\ (year % 100 # 0 \/ year % 400 = 0)

days_in_month(year, month) ==
    IF month = 2 THEN (IF is_leap(year) THEN 29 ELSE 28)
    ELSE IF month \in {4, 6, 9, 11} THEN 30
    ELSE 31

(* datetime.datetime(year, month, day, hour, minute) on Python ints: the   *)
(* fields, or the exception of the constructor: OverflowError for an       *)
(* argument that does not fit a C int, ValueError for one out of range.    *)
datetime(year, month, day, hour, minute) ==
    LET bad(e) == [err |-> e, year |-> 0, month |-> 0, day |-> 0,
                   hour |-> 0, minute |-> 0]
    IN  IF \E a \in {year, month, day, hour, minute} : a.over # 0
        THEN bad("OverflowError")
        ELSE IF /\ year.val \in 1..9999
                /\ month.val \in 1..12
                /\ day.val \in 1..days_in_month(year.val, month.val)
                /\ hour.val \in 0..23
                /\ minute.val \in 0..59
        THEN [err |-> "", year |-> year.val, month |-> month.val,
              day |-> day.val, hour |-> hour.val, minute |-> minute.val]
        ELSE bad("ValueError")

days_before_year(year) ==
    LET y == year - 1 IN y * 365 + y \div 4 - y \div 100 + y \div 400

RECURSIVE days_before_month(_, _)
days_before_month(year, month) ==
    IF month = 1 THEN 0
    ELSE days_before_month(year, month - 1) + days_in_month(year, month - 1)

ymd2ord(year, month, day) ==
    days_before_year(year) + days_before_month(year, month) + day

(* date.weekday(): Monday is 0.                                            *)
weekday(year, month, day) == (ymd2ord(year, month, day) + 6) % 7

(* The day of the last Sunday of the month.                                *)
last_sunday(year, month) ==
    CHOOSE d \in (days_in_month(year, month) - 6)..days_in_month(year, month) :
        weekday(year, month, d) = 6

(* The changes of the clock of the zone in the year, in their order: the   *)
(* wall time at which the clock is changed and the offsets, in seconds     *)
(* east of UTC, before and after.  Europe/Helsinki: local mean time until  *)
(* May 1921; summer time in 1942, from 1981 (until 1982 changed at 02:00   *)
(* and 03:00, from 1983 at 03:00 and 04:00; until 1995 ended in            *)
(* September, from 1996 in October).                                       *)
transitions(z, year) ==
    LET change(m, d, h, b, a) ==
            [month |-> m, day |-> d, hour |-> h, before |-> b, after |-> a]
        summer(h, last) ==
            <<change(3, last_sunday(year, 3), h, 7200, 10800),
              change(last, last_sunday(year, last), h + 1, 10800, 7200)>>
    IN  IF z = "UTC" THEN <<>>
        ELSE IF year = 1921 THEN <<change(5, 1, 0, 5989, 7200)>>
        ELSE IF year = 1942
        THEN <<change(4, 3, 0, 7200, 10800), change(10, 4, 1, 10800, 7200)>>
        ELSE IF year \in 1981..1982 THEN summer(2, 9)
        ELSE IF year \in 1983..1995 THEN summer(3, 9)
        ELSE IF year >= 1996 THEN summer(3, 10)
        ELSE <<>>

(* The offset of the zone at the start of the year.                        *)
standard_offset(z, year) ==
    IF z = "UTC" THEN 0 ELSE IF year <= 1921 THEN 5989 ELSE 7200

(* The seconds from the start of the year to a wall time of it.            *)
wall_second(year, month, day, hour, minute) ==
    (days_before_month(year, month) + day - 1) * 86400
        + hour * 3600 + minute * 60

(* The offsets, in seconds east of UTC, that mktime may apply to the       *)
(* local wall time dt (tm_isdst = -1) under the rules of the zone: the     *)
(* offset in force at dt; in the wall times a change of the clock skips    *)
(* and in those it repeats the C library chooses between the offset        *)
(* before and the offset after.                                            *)
zone_offsets(z, dt) ==
    LET ts     == transitions(z, dt.year)
        w      == wall_second(dt.year, dt.month, dt.day, dt.hour, dt.minute)
        at(i)  == wall_second(dt.year, ts[i].month, ts[i].day, ts[i].hour, 0)
        to(i)  == at(i) + ts[i].after - ts[i].before
        lo(i)  == IF to(i) < at(i) THEN to(i) ELSE at(i)
        hi(i)  == IF to(i) < at(i) THEN at(i) ELSE to(i)
        passed == {i \in 1..Len(ts) : w >= lo(i)}
    IN  IF passed = {} THEN {standard_offset(z, dt.year)}
        ELSE LET i == CHOOSE k \in passed : \A j \in passed : j <= k
             IN  IF w >= hi(i) THEN {ts[i].after}
                 ELSE {ts[i].before, ts[i].after}

(* int(time.mktime(dt.timetuple())) where the zone puts the wall time dt   *)
(* offset seconds east of UTC.  The epoch second, which is beyond 32 bits  *)
(* from 2038 on, is held as whole days and the second of the day: the      *)
(* number days * 86400 + secs, with secs in 0..86399.                      *)
mktime(dt, offset) ==
    LET s == dt.hour * 3600 + dt.minute * 60 - offset
    IN  [days |-> ymd2ord(dt.year, dt.month, dt.day) - ymd2ord(1970, 1, 1)
                    + s \div 86400,
         secs |-> s % 86400]

-----------------------------------------------------------------------------
(* self._config, a configparser.ConfigParser: the options of the DEFAULT   *)
(* section and those of the section tasktrackerapi (None without the       *)
(* section), each a function from option names, which the parser keeps in  *)
(* lower case, to the raw values.  Names and values are sequences of       *)
(* one-character strings.                                                  *)

MAX_INTERPOLATION_DEPTH == 10

UpperCase == <<"A", "B", "C", "D", "E", "F", "G", "H", "I", "J", "K", "L", "M",
               "N", "O", "P", "Q", "R", "S", "T", "U", "V", "W", "X", "Y", "Z">>

LowerCase == <<"a", "b", "c", "d", "e", "f", "g", "h", "i", "j", "k", "l", "m",
               "n", "o", "p", "q", "r", "s", "t", "u", "v", "w", "x", "y", "z">>

(* optionxform: str.lower(), for names of ASCII letters.                   *)
optionxform(name) ==
    [i \in 1..Len(name) |->
        IF \E k \in 1..26 : UpperCase[k] = name[i]
        THEN LowerCase[CHOOSE k \in 1..26 : UpperCase[k] = name[i]]
        ELSE name[i]]

(* _unify_values: the options of the section over those of DEFAULT.        *)
unify_values(cfg) ==
    [k \in DOMAIN cfg.tasktrackerapi[1] \cup DOMAIN cfg.DEFAULT |->
        IF k \in DOMAIN cfg.tasktrackerapi[1] THEN cfg.tasktrackerapi[1][k]
        ELSE cfg.DEFAULT[k]]

Value(text) == [err |-> "", text |-> text]

Error(e) == [err |-> e, text |-> <<>>]

(* BasicInterpolation._interpolate_some: %% is a percent sign, %(name)s    *)
(* the interpolated value of the option name; any other use of % raises    *)
(* InterpolationSyntaxError, a name that is no option                      *)
(* InterpolationMissingOptionError, and a chain of references longer than  *)
(* MAX_INTERPOLATION_DEPTH InterpolationDepthError.                        *)
RECURSIVE interpolate_some(_, _, _)
interpolate_some(rest, map, depth) ==
    LET then(head, tail) ==
            IF tail.err # "" THEN tail ELSE Value(head \o tail.text)
    IN  IF depth > MAX_INTERPOLATION_DEPTH THEN Error("InterpolationDepthError")
        ELSE IF \A i \in 1..Len(rest) : rest[i] # "%" THEN Value(rest)
        ELSE LET p   == CHOOSE i \in 1..Len(rest) :
                            rest[i] = "%" /\ \A k \in 1..(i - 1) : rest[k] # "%"
                 pre == SubSeq(rest, 1, p - 1)
                 r   == SubSeq(rest, p, Len(rest))
                 c   == IF Len(r) >= 2 THEN r[2] ELSE ""
                 closes == {j \in 3..Len(r) : r[j] = ")"}
                 j   == CHOOSE x \in closes : \A y \in closes : x <= y
                 var == optionxform(SubSeq(r, 3, j - 1))
                 sub == IF \A i \in 1..Len(map[var]) : map[var][i] # "%"
                        THEN Value(map[var])
                        ELSE interpolate_some(map[var], map, depth + 1)
             IN  IF c = "%"
                 THEN then(pre \o <<"%">>,
                           interpolate_some(SubSeq(r, 3, Len(r)), map, depth))
                 ELSE IF c # "(" \/ closes = {} \/ j = 3 \/ j = Len(r)
                 THEN Error("InterpolationSyntaxError")
                 ELSE IF r[j + 1] # "s" THEN Error("InterpolationSyntaxError")
                 ELSE IF var \notin DOMAIN map
                 THEN Error("InterpolationMissingOptionError")
                 ELSE IF sub.err # "" THEN sub
                 ELSE then(pre \o sub.text,
                           interpolate_some(SubSeq(r, j + 2, Len(r)), map,
                                            depth))

(* self._config["tasktrackerapi"][key]: KeyError without the section or    *)
(* without the option, in the section and in DEFAULT; otherwise the        *)
(* interpolated value.                                                     *)
config_get(cfg, key) ==
    IF cfg.tasktrackerapi = None THEN Error("KeyError")
    ELSE LET option == optionxform(key)
             map    == unify_values(cfg)
         IN  IF option \notin DOMAIN map THEN Error("KeyError")
             ELSE interpolate_some(map[option], map, 1)

api_address(cfg) ==
    config_get(cfg, <<"h", "o", "s", "t", "a", "d", "d", "r", "e", "s", "s">>)

api_port(cfg) == config_get(cfg, <<"p", "o", "r", "t">>)

add_task(cfg) ==
    config_get(cfg, <<"a", "d", "d", "T", "a", "s", "k", "A", "p", "i">>)

(* _task_post_addr: the f-string of address, ":", port, "/" and path; the  *)
(* first property that raises ends the evaluation.                         *)
task_post_addr(cfg) ==
    LET address == api_address(cfg)
        port    == api_port(cfg)
        path    == add_task(cfg)
    IN  IF address.err # "" THEN address
        ELSE IF port.err # "" THEN port
        ELSE IF path.err # "" THEN path
        ELSE Value(address.text \o <<":">> \o port.text \o <<"/">> \o path.text)

-----------------------------------------------------------------------------
(* class RepeatInfo(IntEnum)                                               *)

NO_REPEAT == 0

MONTHLY == 1

MONTHLY_DAY == 2

SPECIFIED_DAYS == 3

WITH_INTERVAL == 4

(* Exceptions: the class, the message the code gives it (empty for an      *)
(* exception a library raises) and the stage that raised it.               *)
NoExc == [type |-> "none", msg |-> "", at |-> "none"]

Raise(type, msg, at) == [type |-> type, msg |-> msg, at |-> at]

(* _get_repeat_info with the factor of four_weeks lost.                    *)
get_repeat_info_FourWeeksIsSeven(info) ==
    IF info = Some("daily")
    THEN [raised |-> FALSE, val |-> <<SPECIFIED_DAYS, 1234567>>]
    ELSE IF info = Some("weekly")
    THEN [raised |-> FALSE, val |-> <<WITH_INTERVAL, 7>>]
    ELSE IF info = Some("weekdays")
    THEN [raised |-> FALSE, val |-> <<SPECIFIED_DAYS, 12345>>]
    ELSE IF info = Some("biweekly")
    THEN [raised |-> FALSE, val |-> <<WITH_INTERVAL, 14>>]
    ELSE IF info = Some("once")
    THEN [raised |-> FALSE, val |-> <<NO_REPEAT, 0>>]
    ELSE IF info = Some("monthly")
    THEN [raised |-> FALSE, val |-> <<MONTHLY, 0>>]
    ELSE IF info = Some("four_weeks")
    THEN [raised |-> FALSE, val |-> <<WITH_INTERVAL, 7>>]
    ELSE [raised |-> TRUE, val |-> <<>>]

(* _get_repeat_info(info): the (type, parameter) pair, or raised = TRUE    *)
(* where the function raises RuntimeError("Wrong repeat info!").           *)
get_repeat_info(info) ==
    IF info = Some("daily")
    THEN [raised |-> FALSE, val |-> <<SPECIFIED_DAYS, 1234567>>]
    ELSE IF info = Some("weekly")
    THEN [raised |-> FALSE, val |-> <<WITH_INTERVAL, 7>>]
    ELSE IF info = Some("weekdays")
    THEN [raised |-> FALSE, val |-> <<SPECIFIED_DAYS, 12345>>]
    ELSE IF info = Some("biweekly")
    THEN [raised |-> FALSE, val |-> <<WITH_INTERVAL, 14>>]
    ELSE IF info = Some("once")
    THEN [raised |-> FALSE, val |-> <<NO_REPEAT, 0>>]
    ELSE IF info = Some("monthly")
    THEN [raised |-> FALSE, val |-> <<MONTHLY, 0>>]
    ELSE IF info = Some("four_weeks")
    THEN [raised |-> FALSE, val |-> <<WITH_INTERVAL, 7 * 4>>]
    ELSE [raised |-> TRUE, val |-> <<>>]

-----------------------------------------------------------------------------
(* The submissions tried.                                                  *)

MaxDay == 31

MaxHour == 24

RECURSIVE str(_)
str(n) == IF n < 10 THEN <<Digits[n + 1]>>
          ELSE str(n \div 10) \o <<Digits[(n % 10) + 1]>>

DateText(y, m, d) == str(y) \o <<"-">> \o str(m) \o <<"-">> \o str(d)

TimeText(h, m) == str(h) \o <<":">> \o str(m)

(* Structurally valid dates, among them the ends of April and of February  *)
(* in a common and a leap year, the day the Helsinki clock skips an hour,  *)
(* years under each rule of the Helsinki clock, a year past 2038 and a     *)
(* year beyond a C int, and texts int() or the component count reject.     *)
StartTexts ==
    { DateText(2024, 4, d) : d \in 30..MaxDay }
    \cup { DateText(2023, 2, 29),
           DateText(2024, 2, 29), DateText(2024, 2, 30), DateText(2024, 3, 15),
           DateText(2024, 3, 31),
           DateText(1920, 1, 1), DateText(1942, 7, 1), DateText(1995, 10, 1),
           DateText(2040, 1, 1),
           DateText(2024, 13, 1), DateText(0, 1, 1),
           <<"2", "1", "4", "7", "4", "8", "3", "6", "4", "8", "-", "1", "-", "1">>,
           <<" ", "2", "0", "2", "4", "-", "0", "3", "-", "U+2028", "1", "_", "5",
             "\r">>,
           <<"U+0968", "U+0660", "U+06F2", "U+0E54", "-", "U+1D7D1", "-",
             "U+0661", "U+0665">>,
           <<>>,
           DateText(2024, 3, 15) \o <<"-">> \o str(1),
           str(2024) \o <<"-">> \o str(3),
           <<"2", "0", "2", "4", "-", "x", "-", "1", "5">> }

TimeTexts ==
    { TimeText(h, 30) : h \in 24..MaxHour }
    \cup { TimeText(9, 30), TimeText(9, 60), TimeText(3, 30),
           <<>>,
           str(9),
           TimeText(9, 30) \o <<":">> \o str(0),
           <<"9", ":", "x">>,
           <<"\f", "0", "9", ":", "+", "5", "\n">>,
           <<"U+FF11", "U+FF15", ":", "U+2009", "3", "0", "U+00A0">> }

NameTexts == {"", " ", "Water plants"}

Keywords == {"daily", "weekly", "weekdays", "biweekly", "once", "monthly",
             "four_weeks"}

RepeatTexts == Keywords \cup {"Daily", "bogus"}

Optional(S) == {None} \cup {Some(v) : v \in S}

(* 2024-3-15 with the year written in MaxStrDigits + 1 digits.             *)
LongYearText == [i \in 1..(MaxStrDigits - 3) |-> "0"] \o DateText(2024, 3, 15)

(* Every combination of the texts above, and forms the rest of which is    *)
(* valid with the long year.                                               *)
Forms ==
    [task_start : Optional(StartTexts), task_time : Optional(TimeTexts),
     task_name : Optional(NameTexts), repeat_info : Optional(RepeatTexts)]
    \cup [task_start : {Some(LongYearText)},
          task_time : {None, Some(TimeText(9, 30))},
          task_name : {Some("Water plants")}, repeat_info : {Some("daily")}]

(* The configurations tried.                                               *)
OptHost == <<"h", "o", "s", "t", "a", "d", "d", "r", "e", "s", "s">>

OptPort == <<"p", "o", "r", "t">>

OptAddTask == <<"a", "d", "d", "t", "a", "s", "k", "a", "p", "i">>

OptScheme == <<"s", "c", "h", "e", "m", "e">>

NoOptions == [k \in {} |-> <<>>]

(* The three options in the section.                                       *)
PlainConfig ==
    [DEFAULT |-> NoOptions,
     tasktrackerapi |-> Some(
        [k \in {OptHost, OptPort, OptAddTask} |->
            IF k = OptHost
            THEN <<"h", "t", "t", "p", ":", "/", "/", "a", "p", "i">>
            ELSE IF k = OptPort THEN <<"8", "0">>
            ELSE <<"a", "d", "d">>])]

(* The port from DEFAULT, the address through a reference and a percent    *)
(* sign in the path.                                                       *)
ReferringConfig ==
    [DEFAULT |->
        [k \in {OptPort, OptScheme} |->
            IF k = OptPort THEN <<"8", "0">> ELSE <<"h", "t", "t", "p">>],
     tasktrackerapi |-> Some(
        [k \in {OptHost, OptAddTask} |->
            IF k = OptHost
            THEN <<"%", "(", "S", "c", "h", "e", "m", "e", ")", "s", ":", "/",
                   "/", "a", "p", "i">>
            ELSE <<"a", "d", "d", "%", "%">>])]

(* get_config() where the file does not exist: no section.                 *)
EmptyConfig == [DEFAULT |-> NoOptions, tasktrackerapi |-> None]

(* The section without addTaskApi.                                         *)
PartialConfig ==
    [DEFAULT |-> NoOptions,
     tasktrackerapi |-> Some(
        [k \in {OptHost, OptPort} |->
            IF k = OptHost
            THEN <<"h", "t", "t", "p", ":", "/", "/", "a", "p", "i">>
            ELSE <<"8", "0">>])]

(* A port that refers to an option that does not exist.                    *)
DanglingConfig ==
    [DEFAULT |-> NoOptions,
     tasktrackerapi |-> Some(
        [k \in {OptHost, OptPort, OptAddTask} |->
            IF k = OptHost
            THEN <<"h", "t", "t", "p", ":", "/", "/", "a", "p", "i">>
            ELSE IF k = OptPort THEN <<"%", "(", "p", ")", "s">>
            ELSE <<"a", "d", "d">>])]

(* The serving processes tried: a local time zone and a configuration.     *)
Processes ==
    {<<"UTC", PlainConfig>>, <<"Europe/Helsinki", ReferringConfig>>,
     <<"UTC", EmptyConfig>>, <<"Europe/Helsinki", PartialConfig>>,
     <<"UTC", DanglingConfig>>}

(* What requests.post can do once called: answer with a status code, or    *)
(* raise.                                                                  *)
PostResults == {"200", "500", "ConnectionError", "ReadTimeout"}

ResponseText == "Internal Server Error"

INPUT_TASK_HTML == "input_task.html"

EmptyForm == [task_start |-> None, task_time |-> None, task_name |-> None,
              repeat_info |-> None]

-----------------------------------------------------------------------------
(* The state: where the handler is (pc), the request (method, data), the   *)
(* locals of post_add_task, the address the POST goes to (url), the calls  *)
(* made to requests.post (sent), the exception in flight (exc), what       *)
(* create_task returned (response), and the local time zone (zone) and     *)
(* the configuration (config) of the serving process.                      *)

Init ==
    /\ pc = "idle"
    /\ method = "none"
    /\ data = EmptyForm
    /\ start_date = <<>>
    /\ start_time = <<>>
    /\ time_t = None
    /\ repeat = None
    /\ jsondata = None
    /\ sent = <<>>
    /\ exc = NoExc
    /\ url = None
    /\ response = None
    /\ \E p \in Processes : zone = p[1] /\ config = p[2]

(* The server takes a request: create_task starts with no locals.          *)
Fresh(m, d, next) ==
    /\ pc = "idle"
    /\ pc' = next
    /\ method' = m
    /\ data' = d
    /\ start_date' = <<>>
    /\ start_time' = <<>>
    /\ time_t' = None
    /\ repeat' = None
    /\ jsondata' = None
    /\ sent' = <<>>
    /\ exc' = NoExc
    /\ url' = None
    /\ UNCHANGED <<zone, config>>

(* create_task, GET: the form is rendered.                                 *)
GetRequest ==
    /\ Fresh("GET", EmptyForm, "done")
    /\ response' = Some([kind |-> "template", body |-> INPUT_TASK_HTML])

(* create_task, a method that is neither GET nor POST (HEAD comes with     *)
(* the GET route): the view falls through to return 404.                   *)
HeadRequest ==
    /\ Fresh("HEAD", EmptyForm, "done")
    /\ response' = Some([kind |-> "value", body |-> "404"])

(* create_task, POST: post_add_task is called with the form.               *)
PostRequest ==
    /\ pc = "idle"
    /\ \E d \in Forms : Fresh("POST", d, "start_date")
    /\ response' = None

Fail(e) ==
    /\ exc' = e
    /\ pc' = "raised"

(* The start date stage with the count test as len(start_date) < 3.        *)
ParseStartDate_AtLeastThree ==
    /\ pc = "start_date"
    /\ IF data.task_start = None
       THEN Fail(Raise("AttributeError", "", "start_date")) /\ UNCHANGED start_date
       ELSE LET r == IntList(data.task_start[1], "-")
            IN  IF ~r.ok \/ Len(r.val) < 3
                THEN /\ Fail(Raise("WebUIError", "Invalid value for start date!",
                                   "start_date"))
                     /\ start_date' = r.val
                ELSE /\ start_date' = r.val
                     /\ pc' = "start_time"
                     /\ UNCHANGED exc
    /\ UNCHANGED <<method, data, start_time, time_t, repeat, jsondata, sent,
                   response, zone, config, url>>

(* post_add_task, the start date: an absent field makes None.split raise   *)
(* AttributeError, which this try does not catch.  The list is bound       *)
(* before its length is tested.                                            *)
ParseStartDate ==
    /\ pc = "start_date"
    /\ IF data.task_start = None
       THEN Fail(Raise("AttributeError", "", "start_date")) /\ UNCHANGED start_date
       ELSE LET r == IntList(data.task_start[1], "-")
            IN  IF ~r.ok \/ Len(r.val) # 3
                THEN /\ Fail(Raise("WebUIError", "Invalid value for start date!",
                                   "start_date"))
                     /\ start_date' = r.val
                ELSE /\ start_date' = r.val
                     /\ pc' = "start_time"
                     /\ UNCHANGED exc
    /\ UNCHANGED <<method, data, start_time, time_t, repeat, jsondata, sent,
                   response, zone, config, url>>

(* The start time stage with the task name tested before it.               *)
ParseStartTime_NameFirst ==
    /\ pc = "start_time"
    /\ IF data.task_name = None \/ data.task_name = Some("")
       THEN Fail(Raise("WebUIError", "No task name!", "name"))
            /\ UNCHANGED start_time
       ELSE LET r == IF data.task_time = None THEN [ok |-> FALSE, val |-> <<>>]
                     ELSE IntList(data.task_time[1], ":")
            IN  IF ~r.ok \/ Len(r.val) # 2
                THEN /\ Fail(Raise("WebUIError", "Invalid value for start time!",
                                   "start_time"))
                     /\ start_time' = r.val
                ELSE /\ start_time' = r.val
                     /\ pc' = "name"
                     /\ UNCHANGED exc
    /\ UNCHANGED <<method, data, start_date, time_t, repeat, jsondata, sent,
                   response, zone, config, url>>

(* The start time stage catching ValueError alone, as the date stage does. *)
ParseStartTime_ValueErrorOnly ==
    /\ pc = "start_time"
    /\ IF data.task_time = None
       THEN Fail(Raise("AttributeError", "", "start_time")) /\ UNCHANGED start_time
       ELSE LET r == IntList(data.task_time[1], ":")
            IN  IF ~r.ok \/ Len(r.val) # 2
                THEN /\ Fail(Raise("WebUIError", "Invalid value for start time!",
                                   "start_time"))
                     /\ start_time' = r.val
                ELSE /\ start_time' = r.val
                     /\ pc' = "name"
                     /\ UNCHANGED exc
    /\ UNCHANGED <<method, data, start_date, time_t, repeat, jsondata, sent,
                   response, zone, config, url>>

(* post_add_task, the start time: ValueError and AttributeError are both   *)
(* caught.                                                                 *)
ParseStartTime ==
    /\ pc = "start_time"
    /\ LET r == IF data.task_time = None THEN [ok |-> FALSE, val |-> <<>>]
                ELSE IntList(data.task_time[1], ":")
       IN  IF ~r.ok \/ Len(r.val) # 2
           THEN /\ Fail(Raise("WebUIError", "Invalid value for start time!",
                              "start_time"))
                /\ start_time' = r.val
           ELSE /\ start_time' = r.val
                /\ pc' = "name"
                /\ UNCHANGED exc
    /\ UNCHANGED <<method, data, start_date, time_t, repeat, jsondata, sent,
                   response, zone, config, url>>

(* The name stage testing for an absent name alone.                        *)
CheckName_NoneOnly ==
    /\ pc = "name"
    /\ IF data.task_name = None
       THEN Fail(Raise("WebUIError", "No task name!", "name"))
       ELSE pc' = "compose" /\ UNCHANGED exc
    /\ UNCHANGED <<method, data, start_date, start_time, time_t, repeat,
                   jsondata, sent, response, zone, config, url>>

(* post_add_task: if not data.get(NAME).                                   *)
CheckName ==
    /\ pc = "name"
    /\ IF data.task_name = None \/ data.task_name = Some("")
       THEN Fail(Raise("WebUIError", "No task name!", "name"))
       ELSE pc' = "compose" /\ UNCHANGED exc
    /\ UNCHANGED <<method, data, start_date, start_time, time_t, repeat,
                   jsondata, sent, response, zone, config, url>>

(* post_add_task: datetime.datetime(...), outside any try, then mktime.    *)
ComposeTime ==
    /\ pc = "compose"
    /\ LET dt == datetime(start_date[1], start_date[2], start_date[3],
                          start_time[1], start_time[2])
       IN  IF dt.err # ""
           THEN Fail(Raise(dt.err, "", "compose")) /\ UNCHANGED time_t
           ELSE /\ \E offset \in zone_offsets(zone, dt) :
                      time_t' = Some(mktime(dt, offset))
                /\ pc' = "repeat"
                /\ UNCHANGED exc
    /\ UNCHANGED <<method, data, start_date, start_time, repeat, jsondata,
                   sent, response, zone, config, url>>

(* The repeat stage falling back to no repeat for an unknown keyword.      *)
ResolveRepeat_Fallback ==
    /\ pc = "repeat"
    /\ LET r == get_repeat_info(data.repeat_info)
       IN  /\ repeat' = Some(IF r.raised THEN <<NO_REPEAT, 0>> ELSE r.val)
           /\ pc' = "post"
           /\ UNCHANGED exc
    /\ UNCHANGED <<method, data, start_date, start_time, time_t, jsondata,
                   sent, response, zone, config, url>>

(* post_add_task: repeat_type, repeat_info = _get_repeat_info(...).        *)
ResolveRepeat ==
    /\ pc = "repeat"
    /\ LET r == get_repeat_info(data.repeat_info)
       IN  IF r.raised
           THEN Fail(Raise("RuntimeError", "Wrong repeat info!", "repeat"))
                /\ UNCHANGED repeat
           ELSE /\ repeat' = Some(r.val)
                /\ pc' = "post"
                /\ UNCHANGED exc
    /\ UNCHANGED <<method, data, start_date, start_time, time_t, jsondata,
                   sent, response, zone, config, url>>

(* The payload with the two repeat values under each other's key.          *)
Payload_RepeatSwapped ==
    [taskName |-> data.task_name[1],
     taskStart |-> time_t[1],
     taskRepeatInfo |-> repeat[1][1],
     taskRepeatType |-> repeat[1][2]]

(* jsondata: the four keys of the request body; taskStart as mktime        *)
(* gives it.                                                               *)
Payload ==
    [taskName |-> data.task_name[1],
     taskStart |-> time_t[1],
     taskRepeatInfo |-> repeat[1][2],
     taskRepeatType |-> repeat[1][1]]

(* post_add_task: jsondata is bound.                                       *)
BuildPayload ==
    /\ pc = "post"
    /\ jsondata' = Some(Payload)
    /\ pc' = "send"
    /\ UNCHANGED <<method, data, start_date, start_time, time_t, repeat, sent,
                   exc, response, zone, config, url>>

(* post_add_task: the arguments of requests.post are evaluated, url       *)
(* first; self._task_post_addr may raise.  Then requests.post is called    *)
(* with url and jsondata, and blocks.                                      *)
SendPost ==
    /\ pc = "send"
    /\ LET addr == task_post_addr(config)
       IN  IF addr.err # ""
           THEN Fail(Raise(addr.err, "", "post")) /\ UNCHANGED <<url, sent>>
           ELSE /\ url' = Some(addr.text)
                /\ sent' = Append(sent, jsondata[1])
                /\ pc' = "wait"
                /\ UNCHANGED exc
    /\ UNCHANGED <<method, data, start_date, start_time, time_t, repeat,
                   jsondata, response, zone, config>>

(* post_add_task: requests.post returns or raises; a status other than     *)
(* 200 raises RuntimeError(resp.text).                                     *)
PostAnswer(result) ==
    /\ pc = "wait"
    /\ IF result = "200" THEN pc' = "returned" /\ UNCHANGED exc
       ELSE IF result = "500" THEN Fail(Raise("RuntimeError", ResponseText, "post"))
       ELSE Fail(Raise(result, "", "post"))
    /\ UNCHANGED <<method, data, start_date, start_time, time_t, repeat,
                   jsondata, sent, response, zone, config, url>>

(* create_task: what the view returns for what post_add_task did.  An      *)
(* exception no except clause names leaves the view.                       *)
Respond ==
    /\ pc \in {"raised", "returned"}
    /\ pc' = "done"
    /\ response' =
         IF pc = "returned"
         THEN Some([kind |-> "template", body |-> INPUT_TASK_HTML])
         ELSE IF exc.type = "WebUIError"
         THEN Some([kind |-> "text", body |-> exc.msg])
         ELSE IF exc.type = "ConnectionError"
         THEN Some([kind |-> "text",
                    body |-> "Failed to connect to TaskTracker API."])
         ELSE Some([kind |-> "exception", body |-> exc.type])
    /\ UNCHANGED <<method, data, start_date, start_time, time_t, repeat,
                   jsondata, sent, exc, zone, config, url>>

(* The view has returned; the server waits for the next request.           *)
Serve ==
    /\ pc = "done"
    /\ pc' = "idle"
    /\ method' = "none"
    /\ data' = EmptyForm
    /\ start_date' = <<>>
    /\ start_time' = <<>>
    /\ time_t' = None
    /\ repeat' = None
    /\ jsondata' = None
    /\ sent' = <<>>
    /\ exc' = NoExc
    /\ response' = None
    /\ url' = None
    /\ UNCHANGED <<zone, config>>

Next ==
    \/ GetRequest
    \/ HeadRequest
    \/ PostRequest
    \/ ParseStartDate
    \/ ParseStartTime
    \/ CheckName
    \/ ComposeTime
    \/ ResolveRepeat
    \/ BuildPayload
    \/ SendPost
    \/ \E result \in PostResults : PostAnswer(result)
    \/ Respond
    \/ Serve

Spec == Init /\ [][Next]_vars

-----------------------------------------------------------------------------
(* The error kinds of the validation taxonomy, as the code raises them.    *)

InvalidStartDate == [type |-> "WebUIError", msg |-> "Invalid value for start date!"]

InvalidStartTime == [type |-> "WebUIError", msg |-> "Invalid value for start time!"]

MissingTaskName == [type |-> "WebUIError", msg |-> "No task name!"]

UnknownRepeatKeyword == [type |-> "RuntimeError", msg |-> "Wrong repeat info!"]

ValidationKinds ==
    {InvalidStartDate, InvalidStartTime, MissingTaskName, UnknownRepeatKeyword}

(* The failure post_add_task reported, without the place that raised it.   *)
Reported == [type |-> exc.type, msg |-> exc.msg]

-----------------------------------------------------------------------------
(* What the specification says of a submission, stated on the form alone.  *)

Posted == method = "POST"

AfterDate == {"start_time", "name", "compose", "repeat", "post", "send",
              "wait", "raised", "returned", "done"}

AfterTime == AfterDate \ {"start_time"}

AfterName == AfterTime \ {"name"}

AfterCompose == AfterName \ {"compose"}

AfterRepeat == AfterCompose \ {"repeat"}

Finished == {"raised", "returned", "done"}

AllInts(parts) == \A i \in 1..Len(parts) : int(parts[i]).ok

(* task_start is present and is 3 integer components.                      *)
DateStructOK(d) ==
    /\ d.task_start # None
    /\ LET parts == split(d.task_start[1], "-")
       IN  Len(parts) = 3 /\ AllInts(parts)

(* task_time is present and is 2 integer components.                       *)
TimeStructOK(d) ==
    /\ d.task_time # None
    /\ LET parts == split(d.task_time[1], ":")
       IN  Len(parts) = 2 /\ AllInts(parts)

NameOK(d) == d.task_name # None /\ d.task_name[1] # ""

KeywordKnown(d) == d.repeat_info # None /\ d.repeat_info[1] \in Keywords

DateOf(d) == LET p == split(d.task_start[1], "-")
             IN  <<int(p[1]).num.val, int(p[2]).num.val, int(p[3]).num.val>>

TimeOf(d) == LET p == split(d.task_time[1], ":")
             IN  <<int(p[1]).num.val, int(p[2]).num.val>>

(* Every component is a number a C int holds.                              *)
Fits(parts) == \A i \in 1..Len(parts) : int(parts[i]).num.over = 0

MonthLengths == <<31, 28, 31, 30, 31, 30, 31, 31, 30, 31, 30, 31>>

LeapYear(y) == (y % 4 = 0 /\ y % 100 # 0) \/ y % 400 = 0

(* The 3 components are a day of the calendar.                             *)
DatePossible(d) ==
    LET v == DateOf(d)
    IN  /\ Fits(split(d.task_start[1], "-"))
        /\ v[1] >= 1 /\ v[1] <= 9999
        /\ v[2] >= 1 /\ v[2] <= 12
        /\ v[3] >= 1
        /\ v[3] <= MonthLengths[v[2]] + (IF v[2] = 2 /\ LeapYear(v[1]) THEN 1 ELSE 0)

(* The 2 components are a time of day.                                     *)
TimePossible(d) ==
    LET v == TimeOf(d)
    IN  /\ Fits(split(d.task_time[1], ":"))
        /\ v[1] >= 0 /\ v[1] <= 23 /\ v[2] >= 0 /\ v[2] <= 59

CalendarOK(d) ==
    DateStructOK(d) /\ TimeStructOK(d) /\ DatePossible(d) /\ TimePossible(d)

(* The first of the four validation stages the form fails.                 *)
FirstFailing4(d) ==
    IF ~DateStructOK(d) THEN "start_date"
    ELSE IF ~TimeStructOK(d) THEN "start_time"
    ELSE IF ~NameOK(d) THEN "name"
    ELSE IF ~KeywordKnown(d) THEN "repeat"
    ELSE "none"

(* The same with the composition of date and time as a stage of its own,   *)
(* between the task name and the repeat keyword.                           *)
FirstFailing5(d) ==
    IF ~DateStructOK(d) THEN "start_date"
    ELSE IF ~TimeStructOK(d) THEN "start_time"
    ELSE IF ~NameOK(d) THEN "name"
    ELSE IF ~CalendarOK(d) THEN "compose"
    ELSE IF ~KeywordKnown(d) THEN "repeat"
    ELSE "none"

(* The keyword table of the specification and the ordinals of the kinds.   *)
RepeatTable ==
    [k \in Keywords |->
        CASE k = "daily" -> <<"SpecifiedDays", 1234567>>
          [] k = "weekly" -> <<"WithInterval", 7>>
          [] k = "weekdays" -> <<"SpecifiedDays", 12345>>
          [] k = "biweekly" -> <<"WithInterval", 14>>
          [] k = "once" -> <<"NoRepeat", 0>>
          [] k = "monthly" -> <<"Monthly", 0>>
          [] k = "four_weeks" -> <<"WithInterval", 28>>]

KindOrdinal == [NoRepeat |-> 0, Monthly |-> 1, MonthlyOnDay |-> 2,
                SpecifiedDays |-> 3, WithInterval |-> 4]

(* The date of the day that is so many days after 1970-1-1: <<year,        *)
(* month, day>>.                                                           *)
CivilOf(days) ==
    LET z    == days + 719468
        era  == z \div 146097
        doe  == z - era * 146097
        yoe  == (doe - doe \div 1460 + doe \div 36524 - doe \div 146096) \div 365
        doy  == doe - (365 * yoe + yoe \div 4 - yoe \div 100)
        mp   == (5 * doy + 2) \div 153
        dd   == doy - (153 * mp + 2) \div 5 + 1
        mm   == IF mp < 10 THEN mp + 3 ELSE mp - 9
        yy   == yoe + era * 400 + (IF mm <= 2 THEN 1 ELSE 0)
    IN  <<yy, mm, dd>>

(* The offset of the zone at the instant t, given as whole days and the    *)
(* second of the day since 1970-1-1 00:00 UTC.  Europe/Helsinki kept its   *)
(* mean time, 1:39:49 east, until 22:20:11 UTC on 1921-4-30 and is at      *)
(* +2 h since, and at +3 h in summer: in 1942 from 2 April 22:00 UTC to    *)
(* 3 October 22:00 UTC; from the last Sunday of March to the last Sunday   *)
(* of September (from 1996: of October), at 00:00 UTC in 1981 and 1982     *)
(* and at 01:00 UTC from 1983.                                             *)
UtcOffsetAt(z, t) ==
    IF z = "UTC" THEN 0
    ELSE LET c        == CivilOf(t.days)
             hour     == t.secs \div 3600
             sinceSun == (t.days + 4) % 7
             sunday   == c[3] - sinceSun
             switched(len, h) ==
                 sunday >= len - 6 /\ (sinceSun > 0 \/ hour >= h)
             mean     == t.days < -17778 \/ (t.days = -17778 /\ t.secs < 80411)
             summer   ==
                 IF c[1] = 1942
                 THEN \/ c[2] \in 5..9
                      \/ c[2] = 4 /\ (c[3] > 2 \/ (c[3] = 2 /\ hour >= 22))
                      \/ c[2] = 10 /\ (c[3] < 3 \/ (c[3] = 3 /\ hour < 22))
                 ELSE IF c[1] \in 1981..1982
                 THEN \/ c[2] \in 4..8
                      \/ c[2] = 3 /\ switched(31, 0)
                      \/ c[2] = 9 /\ ~switched(30, 0)
                 ELSE IF c[1] \in 1983..1995
                 THEN \/ c[2] \in 4..8
                      \/ c[2] = 3 /\ switched(31, 1)
                      \/ c[2] = 9 /\ ~switched(30, 1)
                 ELSE IF c[1] >= 1996
                 THEN \/ c[2] \in 4..9
                      \/ c[2] = 3 /\ switched(31, 1)
                      \/ c[2] = 10 /\ ~switched(31, 1)
                 ELSE FALSE
         IN  IF mean THEN 5989 ELSE IF summer THEN 10800 ELSE 7200

(* The calendar fields of the instant t at offset seconds east of UTC:     *)
(* <<year, month, day, hour, minute, second>>.                             *)
FieldsAt(t, offset) ==
    LET s == t.secs + offset
        c == CivilOf(t.days + s \div 86400)
        r == s % 86400
    IN  <<c[1], c[2], c[3], r \div 3600, (r % 3600) \div 60, r % 60>>

(* The local calendar fields of the instant t in the zone.                 *)
LocalOf(z, t) == FieldsAt(t, UtcOffsetAt(z, t))

(* The offsets of the zone a day before and a day after the instant t.     *)
OffsetsAround(z, t) ==
    {UtcOffsetAt(z, [t EXCEPT !.days = @ - 1]),
     UtcOffsetAt(z, [t EXCEPT !.days = @ + 1])}

(* The configuration gives the address of the API: evaluating              *)
(* _task_post_addr raises nothing.                                         *)
Configured(cfg) == task_post_addr(cfg).err = ""

(* Zeller's congruence for a day of March to December: 1 is Sunday.        *)
Zeller(y, m, d) ==
    (d + (13 * (m + 1)) \div 5 + (y % 100) + (y % 100) \div 4
       + (y \div 100) \div 4 + 5 * (y \div 100)) % 7

(* The wall time of the form is one the clock of the zone skips: the       *)
(* first minutes of 1921-5-1, the first hour of 1942-4-3, and from 1981    *)
(* an hour of the last Sunday of March.                                    *)
WallTimeSkipped(d, z) ==
    /\ z = "Europe/Helsinki"
    /\ LET v == DateOf(d)
           w == TimeOf(d)
       IN  \/ v = <<1921, 5, 1>> /\ w[1] = 0 /\ w[2] <= 20
           \/ v = <<1942, 4, 3>> /\ w[1] = 0
           \/ /\ v[1] >= 1981 /\ v[2] = 3 /\ v[3] >= 25
              /\ Zeller(v[1], 3, v[3]) = 1
              /\ w[1] = (IF v[1] <= 1982 THEN 2 ELSE 3)

-----------------------------------------------------------------------------
(* C1, as stated: on any submission the failure reported belongs to the    *)
(* earliest failing field in the order start date, start time, task name,  *)
(* repeat keyword.  It fails: a date that is no day of the calendar is     *)
(* reported by the composition before the repeat keyword is looked at.     *)
C1_FourStageOrder ==
    (Posted /\ pc \in Finished /\ FirstFailing4(data) # "none")
        => exc.at = FirstFailing4(data)

(* C1, amended: post_add_task aborts on the first failing stage in the     *)
(* order start date, start time, task name, date/time composition, repeat  *)
(* keyword; the failure reported is raised by the earliest failing stage   *)
(* of these five, and a stage is entered only when all before it passed.   *)
C1_FiveStageOrder ==
    Posted =>
        /\ pc \in AfterDate \ Finished => DateStructOK(data)
        /\ pc \in AfterTime \ Finished => TimeStructOK(data)
        /\ pc \in AfterName \ Finished => NameOK(data)
        /\ pc \in AfterCompose \ Finished => CalendarOK(data)
        /\ pc \in AfterRepeat \ Finished => KeywordKnown(data)
        /\ pc \in Finished =>
             IF FirstFailing5(data) = "none" THEN exc.at \in {"none", "post"}
             ELSE exc.at = FirstFailing5(data)

(* Start time, task name and repeat keyword all fail: the start time is    *)
(* the one reported.                                                       *)
C1_Witness ==
    /\ Posted /\ pc = "done"
    /\ DateStructOK(data) /\ ~TimeStructOK(data) /\ ~NameOK(data)
    /\ ~KeywordKnown(data)
    /\ exc.at = "start_time"

(* C2: requests.post is called at most once per submission and only       *)
(* after the start date, start time, task name, composition and repeat     *)
(* keyword stages have all succeeded; a submission that fails validation   *)
(* produces no payload and no POST.  Nor is there a POST when the          *)
(* configuration does not give the address to post to.                     *)
C2_NoPostOnFailure ==
    /\ Len(sent) <= 1
    /\ (sent # <<>> \/ jsondata # None) =>
          /\ Posted /\ pc \in Finished \cup {"send", "wait"}
          /\ FirstFailing5(data) = "none"
          /\ start_date # <<>> /\ start_time # <<>>
          /\ time_t # None /\ repeat # None
    /\ sent # <<>> =>
          /\ pc \in Finished \cup {"wait"}
          /\ jsondata = Some(sent[1])
          /\ url # None /\ Configured(config)
    /\ (sent = <<>>) = (url = None)
    /\ (sent = <<>> /\ jsondata = None)
          \/ ~(Posted /\ FirstFailing5(data) # "none")

(* An unknown keyword after three valid fields: finished, nothing posted.  *)
C2_Witness ==
    /\ Posted /\ pc = "done"
    /\ FirstFailing5(data) = "repeat"
    /\ data.repeat_info = Some("bogus")
    /\ sent = <<>> /\ jsondata = None

(* C3: for every POST that fails validation with one of the four error     *)
(* kinds, create_task returns the plain-text description of the failure    *)
(* instead of letting the exception leave the handler.                     *)
C3_FailureIsText ==
    (Posted /\ pc = "done" /\ Reported \in ValidationKinds)
        => response = Some([kind |-> "text", body |-> exc.msg])

(* C4: _get_repeat_info maps each of the 7 keywords to the pair of the     *)
(* table, fails with UnknownRepeatKeyword and returns no pair for every    *)
(* other value, an absent one included, and never returns MonthlyOnDay.    *)
C4_RepeatTable ==
    (Posted /\ pc \in AfterRepeat
            /\ exc.at \notin {"start_date", "start_time", "name", "compose"})
        => IF KeywordKnown(data)
           THEN /\ repeat = Some(<<KindOrdinal[RepeatTable[data.repeat_info[1]][1]],
                                   RepeatTable[data.repeat_info[1]][2]>>)
                /\ repeat[1][1] # KindOrdinal["MonthlyOnDay"]
                /\ exc.at # "repeat"
           ELSE /\ repeat = None
                /\ exc.at = "repeat"
                /\ Reported = UnknownRepeatKeyword

C4_Witness ==
    /\ Posted /\ pc = "post"
    /\ data.repeat_info = Some("four_weeks")
    /\ repeat = Some(<<4, 28>>)

(* The four fields are well formed: 3 integers, 2 integers, a non-empty    *)
(* name, a known keyword.                                                  *)
WellFormed(d) ==
    NameOK(d) /\ KeywordKnown(d) /\ DateStructOK(d) /\ TimeStructOK(d)

ExpectedRule(d) == RepeatTable[d.repeat_info[1]]

(* C5, as stated: every well-formed submission is translated, and the      *)
(* payload handed to the POST has exactly the fields taskName, taskStart   *)
(* (the instant of the submitted date and time, in local time),            *)
(* taskRepeatInfo and taskRepeatType.  It fails for 3 integers that are    *)
(* no day of the calendar, for a configuration without the address of     *)
(* the API and for a wall time the local clock skips.                      *)
C5_WellFormedIsPosted ==
    (Posted /\ pc = "done" /\ WellFormed(data)) =>
        /\ Len(sent) = 1
        /\ DOMAIN sent[1] =
             {"taskName", "taskStart", "taskRepeatInfo", "taskRepeatType"}
        /\ sent[1].taskName = data.task_name[1]
        /\ LocalOf(zone, sent[1].taskStart) =
             DateOf(data) \o TimeOf(data) \o <<0>>
        /\ sent[1].taskRepeatInfo = ExpectedRule(data)[2]
        /\ sent[1].taskRepeatType = KindOrdinal[ExpectedRule(data)[1]]

(* C5, amended: for all well-formed input whose components are a possible  *)
(* calendar date and time of day, under a configuration that gives the     *)
(* address of the API, translation succeeds and the payload handed to the  *)
(* POST has exactly the fields taskName (the submitted name), taskStart    *)
(* (the epoch second of that local date and time; for a wall time the      *)
(* local clock skips, the epoch second of that date and time read at the   *)
(* offset from before or from after the change), taskRepeatInfo (the       *)
(* rule's parameter) and taskRepeatType (the ordinal of the rule's kind).  *)
C5_Payload ==
    (Posted /\ WellFormed(data) /\ CalendarOK(data) /\ Configured(config)) =>
        /\ exc.at \in {"none", "post"}
        /\ pc \in Finished \cup {"wait"} =>
             /\ Len(sent) = 1
             /\ DOMAIN sent[1] =
                  {"taskName", "taskStart", "taskRepeatInfo", "taskRepeatType"}
             /\ sent[1].taskName = data.task_name[1]
             /\ IF WallTimeSkipped(data, zone)
                THEN \E o \in OffsetsAround(zone, sent[1].taskStart) :
                        FieldsAt(sent[1].taskStart, o) =
                            DateOf(data) \o TimeOf(data) \o <<0>>
                ELSE LocalOf(zone, sent[1].taskStart) =
                        DateOf(data) \o TimeOf(data) \o <<0>>
             /\ sent[1].taskRepeatInfo = ExpectedRule(data)[2]
             /\ sent[1].taskRepeatType = KindOrdinal[ExpectedRule(data)[1]]

(* 2024-3-15 9:30, "Water plants", weekly, in a UTC process: the epoch     *)
(* second 1710495000 = 19797 * 86400 + 34200.                              *)
C5_Witness ==
    /\ Posted /\ pc = "done" /\ zone = "UTC" /\ config = PlainConfig
    /\ data = [task_start |-> Some(DateText(2024, 3, 15)),
               task_time |-> Some(TimeText(9, 30)),
               task_name |-> Some("Water plants"),
               repeat_info |-> Some("weekly")]
    /\ sent = <<[taskName |-> "Water plants",
                 taskStart |-> [days |-> 19797, secs |-> 34200],
                 taskRepeatInfo |-> 7, taskRepeatType |-> 4]>>

(* C6: 3 integers and 2 integers that are no possible calendar date and    *)
(* time make the composition fail, and the failure is reported as          *)
(* InvalidStartDate.                                                       *)
C6_ImpossibleDateIsInvalidStartDate ==
    (Posted /\ pc = "done" /\ DateStructOK(data) /\ TimeStructOK(data)
            /\ NameOK(data) /\ ~CalendarOK(data))
        => (exc.at = "compose" /\ Reported = InvalidStartDate)

FieldKeys == {"task_start", "task_time", "task_name", "repeat_info"}

FieldValid(d, k) ==
    CASE k = "task_start" -> DateStructOK(d) /\ DatePossible(d)
      [] k = "task_time" -> TimeStructOK(d) /\ TimePossible(d)
      [] k = "task_name" -> NameOK(d)
      [] k = "repeat_info" -> KeywordKnown(d)

FieldError(k) ==
    CASE k = "task_start" -> InvalidStartDate
      [] k = "task_time" -> InvalidStartTime
      [] k = "task_name" -> MissingTaskName
      [] k = "repeat_info" -> UnknownRepeatKeyword

(* C7: a submission in which one of the four keys is absent, the others    *)
(* being valid, is rejected with the validation error of that field.       *)
C7_AbsentKeyIsFieldError ==
    \A k \in FieldKeys :
        (Posted /\ pc = "done" /\ data[k] = None
                /\ \A j \in FieldKeys \ {k} : FieldValid(data, j))
            => Reported = FieldError(k)

(* C8: a present task_start that is not 3 components, or has a component   *)
(* that is no integer, fails with InvalidStartDate whatever the other      *)
(* three fields are.                                                       *)
C8_MalformedDate ==
    (Posted /\ pc \in AfterDate /\ data.task_start # None /\ ~DateStructOK(data))
        => (pc \in Finished /\ exc.at = "start_date" /\ Reported = InvalidStartDate)

(* Four components, and every other field absent.                          *)
C8_Witness ==
    /\ Posted /\ pc = "done"
    /\ data.task_start # None /\ Len(split(data.task_start[1], "-")) = 4
    /\ data.task_time = None /\ data.task_name = None /\ data.repeat_info = None
    /\ Reported = InvalidStartDate

(* C9: after a task_start that passes the date stage, a task_time that is  *)
(* not 2 components, has a non-integer component or is missing fails with  *)
(* InvalidStartTime, the same kind in each case.                           *)
C9_MalformedTime ==
    (Posted /\ pc \in AfterTime /\ DateStructOK(data) /\ ~TimeStructOK(data))
        => (pc \in Finished /\ exc.at = "start_time" /\ Reported = InvalidStartTime)

C9_Witness ==
    /\ Posted /\ pc = "done"
    /\ DateStructOK(data) /\ data.task_time = None
    /\ Reported = InvalidStartTime

(* C10: after a task_start and a task_time that pass their stages, an      *)
(* absent or empty task_name fails with MissingTaskName whatever the       *)
(* repeat keyword is, and any non-empty task_name passes the name stage.   *)
C10_TaskName ==
    (Posted /\ pc \in AfterName /\ DateStructOK(data) /\ TimeStructOK(data))
        => IF data.task_name = None \/ data.task_name = Some("")
           THEN pc \in Finished /\ exc.at = "name" /\ Reported = MissingTaskName
           ELSE exc.at # "name" /\ Reported # MissingTaskName

(* An empty name with a known keyword.                                     *)
C10_Witness ==
    /\ Posted /\ pc = "done"
    /\ DateStructOK(data) /\ TimeStructOK(data)
    /\ data.task_name = Some("") /\ data.repeat_info = Some("daily")
    /\ Reported = MissingTaskName

=============================================================================
